---- MODULE Spec2Model ----
(***************************************************************************)
(* A model of src/autobuildtool.py: one run of main(), from the command    *)
(* line and the environment it reads to the code it hands to sys.exit.     *)
(*                                                                         *)
(* Strings the program inspects character by character (source names,      *)
(* output names) are sequences of one-character strings.  Toolchain paths  *)
(* are only tested for existence and handed on, so they are atoms.         *)
(*                                                                         *)
(* The exit code of a run is the value main() hands to sys.exit.  Return   *)
(* codes range over 0..MaxRc, where the operating system reports that      *)
(* value unchanged.  Library calls (exists, which, print, subprocess.run)  *)
(* are taken to return rather than raise.  Source names have one path      *)
(* component.                                                              *)
(***************************************************************************)
EXTENDS Integers, Sequences, FiniteSets, TLC

VARIABLES
    argv,        \* sys.argv: argv[1] is the program name, argv[2] the first argument
    files,       \* the source-side paths that exist on disk during the run
    pc,          \* the position of main()
    src,         \* main's local src
    out_name,    \* main's local out_name
    probed,      \* whether the working directory was probed for main.c / main.py
    has_c,       \* main's local has_c
    has_py,      \* main's local has_py
    observed,    \* the paths whose exists() the run has seen return True
    zigenv,      \* the environment find_zig read
    whichpy,     \* what shutil.which("pyinstaller") returned
    zig,         \* main's local zig
    pyinstaller, \* main's local pyinstaller
    lookups,     \* the toolchain locators called, in order
    subprocs,    \* the command lines handed to subprocess.run, in order
    returns,     \* the return codes subprocess.run gave back, in order
    err,         \* the message die() printed
    exits        \* the codes handed to sys.exit, in order

vars == <<argv, files, pc, src, out_name, probed, has_c, has_py, observed,
          zigenv, whichpy, zig, pyinstaller, lookups, subprocs, returns, err, exits>>

----------------------------------------------------------------------------
(* Bounds *)

MaxArgs == 3        \* command-line arguments after the program name
MaxRc == 3          \* subprocess return codes are 0..MaxRc
MaxNameLen == 5     \* output names enumerated exhaustively in SpecNorm

----------------------------------------------------------------------------
(* Values *)

None == "None"              \* Python's None, for atoms
NoName == <<"None">>        \* Python's None, for character strings
Prog == <<"t">>
Dot == <<".">>              \* Path("") and Path(".")
MainC == <<"m", "a", "i", "n", ".", "c">>
MainPy == <<"m", "a", "i", "n", ".", "p", "y">>
DotC == <<".", "c">>
DotPy == <<".", "p", "y">>
DotExe == <<".", "e", "x", "e">>
AExe == <<"a", ".", "e", "x", "e">>

SrcNames ==
    { MainC, MainPy, <<>>,
      <<"x", ".", "C">>, <<"n", ".", "t", "x", "t">>, <<"n", "o", "e", "x", "t">>,
      <<".", "c">>, <<"a", ".">>, <<"q", ".", "p", "y", "c">>, <<"a", ".", "b", ".", "c">> }

OutNames ==
    { <<>>, <<"f", "o", "o">>, <<"f", "o", "o", ".", "e", "x", "e">>,
      <<"F", "O", "O", ".", "E", "X", "E">>, <<"b", ".", "E", "x", "e">>, <<"e", "x", "e">> }

ExtraArgs == { <<"z">>, MainPy }

NameChars == { ".", "e", "x", "E", "f" }

ReturnCodes == 0..MaxRc

EnvPath == "C:/zig/zig.exe"
Bundled == "_MEIPASS/zig/zig.exe"
Rel1 == "zig/zig.exe"
Rel2 == "tool/zig/zig.exe"
PathZig == "PATH/zig"
PathPyinstaller == "PATH/pyinstaller"

\* What find_zig reads: the override variable (None when unset), whether
\* sys has _MEIPASS, which candidate paths exist, and shutil.which("zig").
ZigEnvs ==
    { e \in [ AUTOBUILD_ZIG : {None, "", EnvPath},
              MEIPASS : BOOLEAN,
              exists : SUBSET {EnvPath, Bundled, Rel1, Rel2},
              which : {None, PathZig} ] :
        Bundled \in e.exists => e.MEIPASS }

NoEnv == [ AUTOBUILD_ZIG |-> None, MEIPASS |-> FALSE, exists |-> {}, which |-> None ]

----------------------------------------------------------------------------
(* Strings and paths *)

\* str.lower() on the letters the names of the model are written with
Lower(c) ==
    CASE c = "E" -> "e"
      [] c = "X" -> "x"
      [] c = "C" -> "c"
      [] c = "F" -> "f"
      [] c = "O" -> "o"
      [] OTHER -> c

lower(s) == [ i \in 1..Len(s) |-> Lower(s[i]) ]

endswith(s, suffix) ==
    /\ Len(s) >= Len(suffix)
    /\ SubSeq(s, Len(s) - Len(suffix) + 1, Len(s)) = suffix

\* str.rfind('.'), as a 1-based index; 0 when there is no dot
rfindDot(s) ==
    LET D == { i \in 1..Len(s) : s[i] = "." }
    IN IF D = {} THEN 0 ELSE CHOOSE i \in D : \A j \in D : j <= i

\* Path(s) for a name of one component: the empty string is the directory "."
Path(s) == IF s = <<>> THEN Dot ELSE s

\* Path.name: "." has the empty name
Name(p) == IF p = Dot THEN <<>> ELSE p

\* Mutant of Suffix: the extension compared without regard to letter case
Suffix_Lower(p) ==
    LET n == lower(Name(p))
        i == rfindDot(n)
    IN IF 1 < i /\ i < Len(n) THEN SubSeq(n, i, Len(n)) ELSE <<>>

\* Path.suffix: the last dot of the name and what follows it, unless that
\* dot is the first or the last character
Suffix(p) ==
    LET n == Name(p)
        i == rfindDot(n)
    IN IF 1 < i /\ i < Len(n) THEN SubSeq(n, i, Len(n)) ELSE <<>>

\* Path.stem: the name without its suffix
Stem(p) ==
    LET n == Name(p)
        i == rfindDot(n)
    IN IF 1 < i /\ i < Len(n) THEN SubSeq(n, 1, i - 1) ELSE n

----------------------------------------------------------------------------
(* The program's functions *)

\* Mutant of find_zig: the override is used without testing that it exists
find_zig_NoExistsCheck(e) ==
    IF e.AUTOBUILD_ZIG # None /\ e.AUTOBUILD_ZIG # ""
    THEN e.AUTOBUILD_ZIG
    ELSE IF e.MEIPASS /\ Bundled \in e.exists
    THEN Bundled
    ELSE IF Rel1 \in e.exists
    THEN Rel1
    ELSE IF Rel2 \in e.exists
    THEN Rel2
    ELSE IF e.which # None
    THEN e.which
    ELSE None

find_zig(e) ==
    IF e.AUTOBUILD_ZIG # None /\ e.AUTOBUILD_ZIG # "" /\ e.AUTOBUILD_ZIG \in e.exists
    THEN e.AUTOBUILD_ZIG
    ELSE IF e.MEIPASS /\ Bundled \in e.exists
    THEN Bundled
    ELSE IF Rel1 \in e.exists
    THEN Rel1
    ELSE IF Rel2 \in e.exists
    THEN Rel2
    ELSE IF e.which # None
    THEN e.which
    ELSE None

find_pyinstaller(w) == IF w # None THEN w ELSE None

build_with_zig(zig_path, s, o) ==
    << zig_path, "cc", s, "-O2", "-std=c11", "-target", "x86_64-windows-gnu", "-o", o >>

build_python(p, s, o) ==
    << p, "--onefile", "--clean", "--name", Stem(Path(o)), s >>

\* Mutant of normalize_out_name: the suffix test without lower()
normalize_out_name_CaseSensitive(name) ==
    IF name = NoName \/ name = <<>>
    THEN AExe
    ELSE IF ~endswith(name, DotExe)
    THEN name \o DotExe
    ELSE name

normalize_out_name(name) ==
    IF name = NoName \/ name = <<>>
    THEN AExe
    ELSE IF ~endswith(lower(name), DotExe)
    THEN name \o DotExe
    ELSE name

die(msg, code) ==
    /\ err' = msg
    /\ exits' = Append(exits, code)
    /\ pc' = "Failed"

----------------------------------------------------------------------------
(* main() *)

\* The arguments after the second
Extras == UNION { [1..k -> ExtraArgs] : k \in 0..(MaxArgs - 2) }

\* The command lines of at most MaxArgs arguments
Argvs ==
    { a \in { <<Prog>> }
             \cup { <<Prog, s>> : s \in SrcNames }
             \cup { <<Prog, s, o>> \o x : s \in SrcNames, o \in OutNames, x \in Extras } :
        Len(a) <= MaxArgs + 1 }

\* Every output name of at most MaxNameLen characters over NameChars
Names == UNION { [1..k -> NameChars] : k \in 0..MaxNameLen }

\* The paths a run can ask about, main.c, main.py and the explicit source,
\* exist or not; the working directory "." always exists
FileSystems(a) ==
    { S \cup {Dot} :
      S \in SUBSET ({MainC, MainPy} \cup (IF Len(a) >= 2 THEN {Path(a[2])} ELSE {})) }

Idle ==
    /\ pc = "Start"
    /\ src = NoName
    /\ out_name = NoName
    /\ probed = FALSE
    /\ has_c = FALSE
    /\ has_py = FALSE
    /\ observed = {}
    /\ zigenv = NoEnv
    /\ whichpy = None
    /\ zig = None
    /\ pyinstaller = None
    /\ lookups = <<>>
    /\ subprocs = <<>>
    /\ returns = <<>>
    /\ err = None
    /\ exits = <<>>

Init ==
    /\ argv \in Argvs
    /\ files \in FileSystems(argv)
    /\ Idle

\* The same runs, and main.py built under every output name of Names
InitNorm ==
    \/ Init
    \/ /\ argv \in { <<Prog, MainPy, n>> : n \in Names }
       /\ files = {Dot, MainPy}
       /\ Idle

main_start ==
    /\ pc = "Start"
    /\ pc' = "ResolveSource"
    /\ UNCHANGED <<argv, files, src, out_name, probed, has_c, has_py, observed,
                   zigenv, whichpy, zig, pyinstaller, lookups, subprocs, returns, err, exits>>

\* Mutant of ResolveExplicit: a missing source exits with 1, as in auto-detection
ResolveExplicit_ExitOne ==
    /\ pc = "ResolveSource"
    /\ Len(argv) >= 2
    /\ src' = Path(argv[2])
    /\ IF src' \notin files
       THEN /\ die("source not found", 1)
            /\ UNCHANGED <<out_name, observed>>
       ELSE /\ observed' = observed \cup {src'}
            /\ out_name' = IF Len(argv) >= 3 THEN argv[3] ELSE NoName
            /\ pc' = "NormalizeName"
            /\ UNCHANGED <<err, exits>>
    /\ UNCHANGED <<argv, files, probed, has_c, has_py,
                   zigenv, whichpy, zig, pyinstaller, lookups, subprocs, returns>>

\* Mutant of ResolveExplicit: the source is not tested for existence
ResolveExplicit_NoCheck ==
    /\ pc = "ResolveSource"
    /\ Len(argv) >= 2
    /\ src' = Path(argv[2])
    /\ out_name' = IF Len(argv) >= 3 THEN argv[3] ELSE NoName
    /\ pc' = "NormalizeName"
    /\ UNCHANGED <<argv, files, probed, has_c, has_py, observed, err, exits,
                   zigenv, whichpy, zig, pyinstaller, lookups, subprocs, returns>>

\* Mutant of ResolveExplicit: the output name is the last argument
ResolveExplicit_LastArg ==
    /\ pc = "ResolveSource"
    /\ Len(argv) >= 2
    /\ src' = Path(argv[2])
    /\ IF src' \notin files
       THEN /\ die("source not found", 2)
            /\ UNCHANGED <<out_name, observed>>
       ELSE /\ observed' = observed \cup {src'}
            /\ out_name' = IF Len(argv) >= 3 THEN argv[Len(argv)] ELSE NoName
            /\ pc' = "NormalizeName"
            /\ UNCHANGED <<err, exits>>
    /\ UNCHANGED <<argv, files, probed, has_c, has_py,
                   zigenv, whichpy, zig, pyinstaller, lookups, subprocs, returns>>

ResolveExplicit ==
    /\ pc = "ResolveSource"
    /\ Len(argv) >= 2
    /\ src' = Path(argv[2])
    /\ IF src' \notin files
       THEN /\ die("source not found", 2)
            /\ UNCHANGED <<out_name, observed>>
       ELSE /\ observed' = observed \cup {src'}
            /\ out_name' = IF Len(argv) >= 3 THEN argv[3] ELSE NoName
            /\ pc' = "NormalizeName"
            /\ UNCHANGED <<err, exits>>
    /\ UNCHANGED <<argv, files, probed, has_c, has_py,
                   zigenv, whichpy, zig, pyinstaller, lookups, subprocs, returns>>

\* Mutant of ResolveAuto: main.c wins when both files exist
ResolveAuto_PreferC ==
    /\ pc = "ResolveSource"
    /\ ~(Len(argv) >= 2)
    /\ probed' = TRUE
    /\ has_c' = (MainC \in files)
    /\ has_py' = (MainPy \in files)
    /\ observed' = observed \cup ({MainC, MainPy} \cap files)
    /\ IF ~has_c' /\ ~has_py'
       THEN /\ die("main.c or main.py not found", 1)
            /\ UNCHANGED src
       ELSE /\ src' = IF has_c' THEN MainC ELSE MainPy
            /\ pc' = "NormalizeName"
            /\ UNCHANGED <<err, exits>>
    /\ UNCHANGED <<argv, files, out_name,
                   zigenv, whichpy, zig, pyinstaller, lookups, subprocs, returns>>

ResolveAuto ==
    /\ pc = "ResolveSource"
    /\ ~(Len(argv) >= 2)
    /\ probed' = TRUE
    /\ has_c' = (MainC \in files)
    /\ has_py' = (MainPy \in files)
    /\ observed' = observed \cup ({MainC, MainPy} \cap files)
    /\ IF has_c' /\ has_py'
       THEN /\ die("both main.c and main.py exist (ambiguous)", 10)
            /\ UNCHANGED src
       ELSE IF ~has_c' /\ ~has_py'
       THEN /\ die("main.c or main.py not found", 1)
            /\ UNCHANGED src
       ELSE /\ src' = IF has_c' THEN MainC ELSE MainPy
            /\ pc' = "NormalizeName"
            /\ UNCHANGED <<err, exits>>
    /\ UNCHANGED <<argv, files, out_name,
                   zigenv, whichpy, zig, pyinstaller, lookups, subprocs, returns>>

NormalizeName ==
    /\ pc = "NormalizeName"
    /\ out_name' = normalize_out_name(out_name)
    /\ pc' = "LocateToolchain"
    /\ UNCHANGED <<argv, files, src, probed, has_c, has_py, observed,
                   zigenv, whichpy, zig, pyinstaller, lookups, subprocs, returns, err, exits>>

\* Mutant of LocateZig: the build goes on without a compiler
LocateZig_NoCheck ==
    /\ pc = "LocateToolchain"
    /\ Suffix(src) = DotC
    /\ \E e \in ZigEnvs :
        /\ zigenv' = e
        /\ zig' = find_zig(e)
    /\ lookups' = Append(lookups, "find_zig")
    /\ pc' = "Dispatch"
    /\ UNCHANGED <<argv, files, src, out_name, probed, has_c, has_py, observed,
                   whichpy, pyinstaller, subprocs, returns, err, exits>>

\* Mutant of LocateZig: a compiler that was not found is looked up once more
LocateZig_Retry ==
    /\ pc = "LocateToolchain"
    /\ Suffix(src) = DotC
    /\ \E e \in ZigEnvs :
        /\ zigenv' = e
        /\ zig' = find_zig(e)
    /\ lookups' = Append(lookups, "find_zig")
    /\ IF zig' = None
       THEN IF lookups = <<>>
            THEN UNCHANGED <<pc, err, exits>>
            ELSE die("zig not found", 3)
       ELSE /\ pc' = "Dispatch"
            /\ UNCHANGED <<err, exits>>
    /\ UNCHANGED <<argv, files, src, out_name, probed, has_c, has_py, observed,
                   whichpy, pyinstaller, subprocs, returns>>

LocateZig ==
    /\ pc = "LocateToolchain"
    /\ Suffix(src) = DotC
    /\ \E e \in ZigEnvs :
        /\ zigenv' = e
        /\ zig' = find_zig(e)
    /\ lookups' = Append(lookups, "find_zig")
    /\ IF zig' = None
       THEN die("zig not found", 3)
       ELSE /\ pc' = "Dispatch"
            /\ UNCHANGED <<err, exits>>
    /\ UNCHANGED <<argv, files, src, out_name, probed, has_c, has_py, observed,
                   whichpy, pyinstaller, subprocs, returns>>

LocatePyinstaller ==
    /\ pc = "LocateToolchain"
    /\ Suffix(src) # DotC
    /\ Suffix(src) = DotPy
    /\ \E w \in {None, PathPyinstaller} :
        /\ whichpy' = w
        /\ pyinstaller' = find_pyinstaller(w)
    /\ lookups' = Append(lookups, "find_pyinstaller")
    /\ IF pyinstaller' = None
       THEN die("pyinstaller not found (pip install pyinstaller)", 4)
       ELSE /\ pc' = "Dispatch"
            /\ UNCHANGED <<err, exits>>
    /\ UNCHANGED <<argv, files, src, out_name, probed, has_c, has_py, observed,
                   zigenv, zig, subprocs, returns>>

Unsupported ==
    /\ pc = "LocateToolchain"
    /\ Suffix(src) # DotC
    /\ Suffix(src) # DotPy
    /\ die("unsupported source type", 5)
    /\ UNCHANGED <<argv, files, src, out_name, probed, has_c, has_py, observed,
                   zigenv, whichpy, zig, pyinstaller, lookups, subprocs, returns>>

BuildC ==
    /\ pc = "Dispatch"
    /\ Suffix(src) = DotC
    /\ subprocs' = Append(subprocs, build_with_zig(zig, src, out_name))
    /\ pc' = "RunningC"
    /\ UNCHANGED <<argv, files, src, out_name, probed, has_c, has_py, observed,
                   zigenv, whichpy, zig, pyinstaller, lookups, returns, err, exits>>

BuildPython ==
    /\ pc = "Dispatch"
    /\ Suffix(src) # DotC
    /\ Suffix(src) = DotPy
    /\ subprocs' = Append(subprocs, build_python(pyinstaller, src, out_name))
    /\ pc' = "RunningPython"
    /\ UNCHANGED <<argv, files, src, out_name, probed, has_c, has_py, observed,
                   zigenv, whichpy, zig, pyinstaller, lookups, returns, err, exits>>

\* Mutant of Finish: a failed build exits with 1
Finish_ExitOne(msg, rc) ==
    IF rc # 0
    THEN die(msg, 1)
    ELSE /\ exits' = Append(exits, 0)
         /\ pc' = "Done"
         /\ UNCHANGED err

\* After a build returns: die with its code, or fall through to sys.exit(0)
Finish(msg, rc) ==
    IF rc # 0
    THEN die(msg, rc)
    ELSE /\ exits' = Append(exits, 0)
         /\ pc' = "Done"
         /\ UNCHANGED err

BuildCReturn ==
    /\ pc = "RunningC"
    /\ \E rc \in ReturnCodes :
        /\ returns' = Append(returns, rc)
        /\ Finish("C build failed", rc)
    /\ UNCHANGED <<argv, files, src, out_name, probed, has_c, has_py, observed,
                   zigenv, whichpy, zig, pyinstaller, lookups, subprocs>>

BuildPythonReturn ==
    /\ pc = "RunningPython"
    /\ \E rc \in ReturnCodes :
        /\ returns' = Append(returns, rc)
        /\ Finish("Python build failed", rc)
    /\ UNCHANGED <<argv, files, src, out_name, probed, has_c, has_py, observed,
                   zigenv, whichpy, zig, pyinstaller, lookups, subprocs>>

Next ==
    \/ main_start
    \/ ResolveExplicit
    \/ ResolveAuto
    \/ NormalizeName
    \/ LocateZig
    \/ LocatePyinstaller
    \/ Unsupported
    \/ BuildC
    \/ BuildPython
    \/ BuildCReturn
    \/ BuildPythonReturn

Spec == Init /\ [][Next]_vars

\* main() is sequential and blocks on subprocess.run: a run that can take a
\* step takes it, and the subprocess is taken to return
FairSpec == Spec /\ WF_vars(Next)

SpecNorm == InitNorm /\ [][Next]_vars

----------------------------------------------------------------------------
(* Vocabulary of the properties *)

Terminated == pc \in {"Done", "Failed"}

ResolveErrs ==
    { "source not found",
      "both main.c and main.py exist (ambiguous)",
      "main.c or main.py not found" }

\* The run has left source resolution with a source
Resolved == pc \notin {"Start", "ResolveSource"} /\ err \notin ResolveErrs

\* The run has executed line 146
Normalized == Resolved /\ pc # "NormalizeName"

\* The run has taken one of the three branches on the source's extension
Branched == Normalized /\ pc # "LocateToolchain"

\* The name is a non-empty stem followed by the extension
HasExt(n, ext) == Len(n) > Len(ext) /\ endswith(n, ext)

\* The name ends with ".exe" in some letter case
BearsExe(n) ==
    /\ Len(n) >= 4
    /\ n[Len(n) - 3] = "."
    /\ n[Len(n) - 2] \in {"e", "E"}
    /\ n[Len(n) - 1] \in {"x", "X"}
    /\ n[Len(n)] \in {"e", "E"}

\* The failure kinds of section 7 and the exit-code table of section 6
FailureKind(m) ==
    CASE m = "main.c or main.py not found" -> "no source found"
      [] m = "source not found" -> "explicit source missing"
      [] m = "zig not found" -> "C toolchain not found"
      [] m = "pyinstaller not found (pip install pyinstaller)" -> "packaging toolchain not found"
      [] m = "unsupported source type" -> "unsupported extension"
      [] m = "both main.c and main.py exist (ambiguous)" -> "ambiguous auto-detection"
      [] m \in {"C build failed", "Python build failed"} -> "external build failed"
      [] OTHER -> "none"

KindOfCode(c) ==
    CASE c = 1 -> "no source found"
      [] c = 2 -> "explicit source missing"
      [] c = 3 -> "C toolchain not found"
      [] c = 4 -> "packaging toolchain not found"
      [] c = 5 -> "unsupported extension"
      [] c = 10 -> "ambiguous auto-detection"
      [] OTHER -> "external build failed"

\* The candidates of find_zig in priority order, each with whether it is there
Tiers(e) ==
    << [ path |-> e.AUTOBUILD_ZIG,
         ok |-> e.AUTOBUILD_ZIG \notin {None, ""} /\ e.AUTOBUILD_ZIG \in e.exists ],
       [ path |-> Bundled, ok |-> e.MEIPASS /\ Bundled \in e.exists ],
       [ path |-> Rel1, ok |-> Rel1 \in e.exists ],
       [ path |-> Rel2, ok |-> Rel2 \in e.exists ],
       [ path |-> e.which, ok |-> e.which # None ] >>

StageRank(p) ==
    CASE p = "Start" -> 0
      [] p = "ResolveSource" -> 1
      [] p = "NormalizeName" -> 2
      [] p = "LocateToolchain" -> 3
      [] p \in {"Dispatch", "RunningC", "RunningPython"} -> 4
      [] p \in {"Done", "Failed"} -> 5

\* Progress inside the stages too: a build first starts, then is waited for
StepRank(p) ==
    2 * StageRank(p) + (IF p \in {"RunningC", "RunningPython"} THEN 1 ELSE 0)

----------------------------------------------------------------------------
(* The properties *)

\* C1: a finished run handed sys.exit exactly one code; that code is 0 if and
\* only if exactly one subprocess was invoked and it returned 0; and a
\* subprocess that returned a non-zero rc makes the run exit with rc, for the
\* C and for the Python build alike.
C1_ExitCodePropagated ==
    Terminated =>
        /\ Len(exits) = 1
        /\ exits[1] = 0 <=> (Len(subprocs) = 1 /\ returns = <<0>>)
        /\ \A i \in 1..Len(returns) : returns[i] # 0 => exits = <<returns[i]>>
        /\ pc = "Done" <=> exits = <<0>>

C1_Witness ==
    /\ pc = "Failed"
    /\ Suffix(src) = DotPy
    /\ Len(subprocs) = 1
    /\ returns = <<2>>
    /\ exits = <<2>>

\* C2 as claimed: the exit code of a failed run decides its failure kind, so
\* that two runs failing for different reasons never share an exit code.
C2_CodeIdentifiesKind ==
    pc = "Failed" => FailureKind(err) = KindOfCode(exits[1])

\* C2 amended: the six failures the driver itself detects exit with the
\* pairwise distinct codes 1, 2, 3, 4, 5 and 10 of the table; a failed
\* external build exits with the subprocess's own non-zero return code,
\* whatever it is.
C2_DriverCodesDistinct ==
    pc = "Failed" =>
        /\ Len(exits) = 1
        /\ returns = <<>> =>
            /\ exits[1] \in {1, 2, 3, 4, 5, 10}
            /\ FailureKind(err) = KindOfCode(exits[1])
            /\ FailureKind(err) # "external build failed"
        /\ returns # <<>> =>
            /\ FailureKind(err) = "external build failed"
            /\ exits[1] # 0
            /\ exits = returns

C2_Witness ==
    /\ pc = "Failed"
    /\ err = "both main.c and main.py exist (ambiguous)"
    /\ exits = <<10>>

\* C3: without arguments the run leaves source resolution with a source if
\* and only if exactly one of main.c and main.py exists, and that file is
\* the source; with both it exits with 10, with neither with 1, and in both
\* cases no toolchain was looked up and no subprocess invoked.
C3_AutoDetection ==
    (Len(argv) = 1 /\ pc \notin {"Start", "ResolveSource"}) =>
        LET c == MainC \in files
            p == MainPy \in files
        IN /\ Resolved <=> (c # p)
           /\ Resolved => src = (IF c THEN MainC ELSE MainPy)
           /\ (c /\ p) => pc = "Failed" /\ exits = <<10>>
           /\ (~c /\ ~p) => pc = "Failed" /\ exits = <<1>>
           /\ ~Resolved => lookups = <<>> /\ subprocs = <<>>

C3_Witness ==
    /\ Len(argv) = 1
    /\ {MainC, MainPy} \subseteq files
    /\ pc = "Failed"
    /\ exits = <<10>>

\* C4: a run whose explicit source does not exist never looks up a
\* toolchain and exits with 2; and in every run a toolchain is looked up
\* only once the source has been seen to exist on disk.
C4_SourceExistsBeforeLookup ==
    /\ (Len(argv) >= 2 /\ Path(argv[2]) \notin files) =>
            /\ lookups = <<>>
            /\ pc \notin {"Start", "ResolveSource"} => pc = "Failed" /\ exits = <<2>>
    /\ lookups # <<>> => src \in observed /\ src \in files

C4_Witness ==
    /\ Len(argv) >= 2
    /\ Path(argv[2]) \notin files
    /\ Suffix(Path(argv[2])) = DotC
    /\ pc = "Failed"
    /\ exits = <<2>>

\* C5: an existing .c source with no C toolchain found exits with 3 and an
\* existing .py source with no packaging toolchain found exits with 4, both
\* without a subprocess; a subprocess is only ever invoked with a located
\* toolchain of the kind the source's extension asks for.
C5_ToolchainRequired ==
    /\ (Branched /\ HasExt(src, DotC)) =>
            /\ lookups = <<"find_zig">>
            /\ find_zig(zigenv) = None =>
                    pc = "Failed" /\ exits = <<3>> /\ subprocs = <<>>
    /\ (Branched /\ HasExt(src, DotPy)) =>
            /\ lookups = <<"find_pyinstaller">>
            /\ whichpy = None =>
                    pc = "Failed" /\ exits = <<4>> /\ subprocs = <<>>
    /\ \A i \in 1..Len(subprocs) :
            \/ /\ HasExt(src, DotC)
               /\ subprocs[i][1] \in {EnvPath, Bundled, Rel1, Rel2, PathZig}
               /\ subprocs[i][1] = find_zig(zigenv)
               /\ subprocs[i][2] = "cc"
            \/ /\ HasExt(src, DotPy)
               /\ subprocs[i][1] = PathPyinstaller
               /\ subprocs[i][1] = whichpy
               /\ subprocs[i][2] = "--onefile"

C5_Witness ==
    /\ HasExt(src, DotC)
    /\ src \in files
    /\ find_zig(zigenv) = None
    /\ lookups = <<"find_zig">>
    /\ pc = "Failed"
    /\ exits = <<3>>

\* C6: an existing source whose extension is neither .c nor .py (.txt, none,
\* .C) exits with 5, and no toolchain is looked up nor subprocess invoked.
C6_UnsupportedExtension ==
    (Resolved /\ ~HasExt(src, DotC) /\ ~HasExt(src, DotPy)) =>
        /\ lookups = <<>>
        /\ subprocs = <<>>
        /\ Branched => pc = "Failed" /\ exits = <<5>>

C6_Witness ==
    /\ src = <<"x", ".", "C">>
    /\ src \in files
    /\ pc = "Failed"
    /\ exits = <<5>>

\* C7: the normalised output name ends with ".exe" in some letter case; it
\* is "a.exe" for an absent or empty name, the name itself when it already
\* ends so, the name with ".exe" appended otherwise; normalising it again
\* changes nothing; and every build is handed a name that bears the suffix.
C7_NormalizeOutName ==
    Normalized =>
        LET given == IF Len(argv) >= 3 THEN argv[3] ELSE NoName
        IN /\ BearsExe(out_name)
           /\ given \in {NoName, <<>>} => out_name = AExe
           /\ (given \notin {NoName, <<>>} /\ BearsExe(given)) => out_name = given
           /\ (given \notin {NoName, <<>>} /\ ~BearsExe(given)) => out_name = given \o DotExe
           /\ normalize_out_name(out_name) = out_name
           /\ \A i \in 1..Len(subprocs) :
                \/ subprocs[i] = build_with_zig(zig, src, out_name)
                \/ subprocs[i] = build_python(pyinstaller, src, out_name)

C7_Witness ==
    /\ Len(argv) = 3
    /\ argv[3] = <<"f", ".", "E", "x", "E">>
    /\ out_name = argv[3]
    /\ pc = "Done"

\* C8: find_zig returns the first candidate that is there, in the order
\* override variable, bundle, zig/zig.exe, tool/zig/zig.exe, search path;
\* an override naming a missing path falls through; not-found is returned
\* only when no candidate is there.
C8_FindZigPriority ==
    lookups = <<"find_zig">> =>
        LET t == Tiers(zigenv)
        IN /\ zig = None <=> \A i \in 1..Len(t) : ~t[i].ok
           /\ zig # None =>
                \E i \in 1..Len(t) :
                    /\ t[i].ok
                    /\ t[i].path = zig
                    /\ \A j \in 1..(i - 1) : ~t[j].ok

C8_Witness ==
    /\ lookups = <<"find_zig">>
    /\ zigenv.AUTOBUILD_ZIG = EnvPath
    /\ zigenv.exists = {Rel2}
    /\ zigenv.which = PathZig
    /\ zig = Rel2

\* C9: every step moves the run forward, to the next stage or to Failed,
\* and none leaves Done or Failed; a failure leaves the later stages' work
\* undone; at most one subprocess is invoked; and the run ends.
C9_LinearStateMachine ==
    /\ [][ /\ StepRank(pc') > StepRank(pc)
           /\ pc' = "Failed" \/ StageRank(pc') <= StageRank(pc) + 1 ]_vars
    /\ [](pc = "Failed" =>
            /\ err \in ResolveErrs => out_name = NoName /\ lookups = <<>> /\ subprocs = <<>>
            /\ err = "unsupported source type" => lookups = <<>> /\ subprocs = <<>>
            /\ returns = <<>> => subprocs = <<>>)
    /\ [](Len(subprocs) <= 1 /\ Len(lookups) <= 1)
    /\ <>Terminated

C9_Witness ==
    /\ pc = "Done"
    /\ Len(subprocs) = 1
    /\ Len(lookups) = 1

\* C10: with an argument the working directory is never probed and the
\* source is the first argument, whatever main.c and main.py do; the output
\* name is the normalised second argument, "a.exe" without one; further
\* arguments change nothing; and auto-detection builds "a.exe".
C10_ExplicitArguments ==
    /\ Len(argv) >= 2 =>
            /\ ~probed
            /\ err \notin {"both main.c and main.py exist (ambiguous)",
                           "main.c or main.py not found"}
            /\ pc \notin {"Start", "ResolveSource"} => src = Path(argv[2])
            /\ Normalized =>
                    out_name = IF Len(argv) >= 3 THEN normalize_out_name(argv[3]) ELSE AExe
    /\ (Len(argv) = 1 /\ Normalized) => probed /\ out_name = AExe
    /\ \A i \in 1..Len(subprocs) :
            LET s == IF Len(argv) >= 2 THEN Path(argv[2]) ELSE src
                o == IF Len(argv) >= 3 THEN normalize_out_name(argv[3]) ELSE AExe
            IN subprocs[i] \in { build_with_zig(zig, s, o), build_python(pyinstaller, s, o) }

C10_Witness ==
    /\ Len(argv) = 4
    /\ argv[2] = <<"a", ".", "b", ".", "c">>
    /\ argv[3] = <<"f", "o", "o">>
    /\ argv[4] = MainPy
    /\ {MainC, MainPy} \subseteq files
    /\ out_name = <<"f", "o", "o", ".", "e", "x", "e">>
    /\ pc = "Done"

====
